---- MODULE Spec2Model ----
(***************************************************************************)
(* logger-bot: the persistence layer (src/src/database.rs), the chart data *)
(* preparation (src/src/chart.rs) and the command handler                  *)
(* (src/src/bot.rs), as one state machine with four specifications:        *)
(*   SpecChart  the pure chart functions applied to bounded inputs         *)
(*   SpecLb     get_leaderboard applied to bounded stores                  *)
(*   Spec       concurrently handled requests over the shared store        *)
(*   SpecSeq    the same handlers, one request at a time                   *)
(***************************************************************************)
EXTENDS Integers, Sequences, FiniteSets, Bags, TLC

VARIABLES
    users,      \* table users: set of rows [id, telegram_id]
    logs,       \* table logs: bag of rows <<user_id, timestamp>>
    req,        \* per request slot: the handler's position and locals
    hist,       \* per external id: what the last successful delete removed
    ts_in,      \* chart functions: the timestamps argument
    year_in,    \* chart functions: the year argument
    data,       \* chart functions: the prepared [ChartData; N], or None
    y_range,    \* chart functions: the y range draw_chart builds, or None
    lb_out      \* get_leaderboard's last result, or None

vars == <<users, logs, req, hist, ts_in, year_in, data, y_range, lb_out>>

\* Option<T>: None is the empty sequence, Some(x) the sequence of x alone.
None == <<>>
Some(x) == <<x>>

-----------------------------------------------------------------------------
(* Bounds of the model.                                                    *)

MaxLen == 3          \* longest timestamp sequence given to the chart functions
MaxUsersLb == 11     \* most users with events in a store get_leaderboard is applied to
MaxId == 2           \* largest internal user id the store allocates
MaxLogs == 2         \* most rows of table logs

-----------------------------------------------------------------------------
(* chrono, as chart.rs uses it.  An i64 timestamp is held as the pair      *)
(* [d, s] = (ts.div_euclid(86400), ts.rem_euclid(86400)) that              *)
(* DateTime::from_timestamp splits it into first, so that instants outside *)
(* chrono's range stay representable in TLC's 32-bit integers.             *)

SecsPerDay == 24 * 3600

FromSecs(n) == [d |-> n \div SecsPerDay, s |-> n % SecsPerDay]

\* Proleptic Gregorian date of a day number counted from 1970-01-01.
CivilFromDays(d) ==
    LET z   == d + 719468
        era == z \div 146097
        doe == z - era * 146097
        yoe == (doe - doe \div 1460 + doe \div 36524 - doe \div 146096) \div 365
        doy == doe - (365 * yoe + yoe \div 4 - yoe \div 100)
        mp  == (5 * doy + 2) \div 153
        m   == IF mp < 10 THEN mp + 3 ELSE mp - 9
    IN  [year |-> yoe + era * 400 + (IF m <= 2 THEN 1 ELSE 0), month |-> m]

\* DateTime::from_timestamp(ts, 0): None outside NaiveDate::MIN..=MAX
\* (-262143-01-01 ..= +262142-12-31), else the UTC date and time.
from_timestamp(ts) ==
    LET c == CivilFromDays(ts.d)
    IN  IF c.year < -262143 \/ c.year > 262142
        THEN None
        ELSE Some([year |-> c.year, month |-> c.month, hour |-> ts.s \div 3600])

-----------------------------------------------------------------------------
(* chart.rs                                                                *)

ChartData(v) == [value |-> v, label |-> None]

\* .filter_map(|&ts| DateTime::from_timestamp(ts, 0))
RECURSIVE FilterMapTs(_)
FilterMapTs(tss) ==
    IF tss = <<>> THEN <<>>
    ELSE from_timestamp(Head(tss)) \o FilterMapTs(Tail(tss))

\* .fold([0usize; 12], |mut acc, dt| { acc[(dt.month() - 1) as usize] += 1; acc })
RECURSIVE FoldMonths(_, _)
FoldMonths(acc, dts) ==
    IF dts = <<>> THEN acc
    ELSE FoldMonths([acc EXCEPT ![(Head(dts).month - 1) + 1] = @ + 1], Tail(dts))

\* Mutant of FoldHours: the hour taken on a 12-hour clock.
RECURSIVE FoldHours12(_, _)
FoldHours12(acc, dts) ==
    IF dts = <<>> THEN acc
    ELSE FoldHours12([acc EXCEPT ![(Head(dts).hour % 12) + 1] = @ + 1], Tail(dts))

\* .fold([0usize; 24], |mut acc, dt| { acc[dt.hour() as usize] += 1; acc })
RECURSIVE FoldHours(_, _)
FoldHours(acc, dts) ==
    IF dts = <<>> THEN acc
    ELSE FoldHours([acc EXCEPT ![Head(dts).hour + 1] = @ + 1], Tail(dts))

\* Mutant of prepare_annual_data: the filter on the year left out.
prepare_annual_data_any_year(timestamps, year) ==
    LET acc == FoldMonths([i \in 1..12 |-> 0], FilterMapTs(timestamps))
    IN  [i \in 1..12 |-> ChartData(acc[i])]

prepare_annual_data(timestamps, year) ==
    LET dts  == SelectSeq(FilterMapTs(timestamps), LAMBDA dt : dt.year = year)
        acc  == FoldMonths([i \in 1..12 |-> 0], dts)
    IN  [i \in 1..12 |-> ChartData(acc[i])]

prepare_hourly_data(timestamps) ==
    LET acc == FoldHours([i \in 1..24 |-> 0], FilterMapTs(timestamps))
    IN  [i \in 1..24 |-> ChartData(acc[i])]

RECURSIVE SeqMax(_)
SeqMax(s) ==
    IF Len(s) = 1 THEN s[1]
    ELSE LET m == SeqMax(Tail(s)) IN IF s[1] >= m THEN s[1] ELSE m

\* data.iter().map(|d| d.value).max().unwrap_or(1): None only for no data.
YUpper(d) ==
    IF Len(d) = 0 THEN 1 ELSE SeqMax([i \in 1..Len(d) |-> d[i].value])

\* build_cartesian_2d(0..data.len(), 0..max) and the histogram's bars.
draw_chart(params, d) ==
    [caption |-> params.caption, x_desc |-> params.x_desc, y_desc |-> params.y_desc,
     x |-> <<0, Len(d)>>, y |-> <<0, YUpper(d)>>,
     bars |-> [i \in 1..Len(d) |-> d[i].value]]

-----------------------------------------------------------------------------
(* SpecChart: the chart functions applied to bounded inputs.               *)

TsSamples ==
    { FromSecs(1704067200),      \* 2024-01-01 00:00:00
      FromSecs(1705294800),      \* 2024-01-15 05:00:00
      FromSecs(1709337599),      \* 2024-03-01 23:59:59
      FromSecs(1704063600),      \* 2023-12-31 23:00:00
      FromSecs(-3600),           \* 1969-12-31 23:00:00
      [d |-> 100000000, s |-> 0],        \* past NaiveDate::MAX
      [d |-> -100000000, s |-> 3600] }   \* before NaiveDate::MIN

Years == {1969, 2023, 2024}

SeqsUpTo(S, n) == UNION {[1..k -> S] : k \in 0..n}

StoreIdle ==
    /\ users = {}
    /\ logs = EmptyBag
    /\ req = <<>>
    /\ hist = <<>>
    /\ lb_out = None

InitChart ==
    /\ StoreIdle
    /\ ts_in \in SeqsUpTo(TsSamples, MaxLen)
    /\ year_in \in Years
    /\ data = None
    /\ y_range = None

ChartAnnual ==
    /\ data = None
    /\ data' = Some([fn |-> "annual", out |-> prepare_annual_data(ts_in, year_in)])
    /\ UNCHANGED <<users, logs, req, hist, ts_in, year_in, y_range, lb_out>>

ChartHourly ==
    /\ data = None
    /\ data' = Some([fn |-> "hourly", out |-> prepare_hourly_data(ts_in)])
    /\ UNCHANGED <<users, logs, req, hist, ts_in, year_in, y_range, lb_out>>

ChartDraw ==
    /\ data # None
    /\ y_range = None
    /\ y_range' = Some(draw_chart([caption |-> "", x_desc |-> "", y_desc |-> "Score"],
                                data[1].out).y)
    /\ UNCHANGED <<users, logs, req, hist, ts_in, year_in, data, lb_out>>

NextChart == ChartAnnual \/ ChartHourly \/ ChartDraw

SpecChart == InitChart /\ [][NextChart]_vars

-----------------------------------------------------------------------------
(* database.rs.  Table users holds rows [id, telegram_id], telegram_id     *)
(* unique; table logs holds rows <<user_id, timestamp>> (its own row id    *)
(* is never read, so the table is a bag).                                  *)

\* The number of rows of logs among the distinct rows S.
RECURSIVE CountRows(_, _)
CountRows(lg, S) ==
    IF S = {} THEN 0
    ELSE LET l == CHOOSE x \in S : TRUE IN CopiesIn(l, lg) + CountRows(lg, S \ {l})

\* The ids an INSERT INTO users may give a new row: any id no row holds.
NewIds(us) == {i \in 1..MaxId : \A u \in us : u.id # i}

\* INSERT INTO users (telegram_id) VALUES (?) ON CONFLICT(telegram_id)
\* DO UPDATE SET telegram_id = telegram_id RETURNING id
get_user_id(us, tg_id, new_id) ==
    IF \E u \in us : u.telegram_id = tg_id
    THEN [users |-> us, id |-> (CHOOSE u \in us : u.telegram_id = tg_id).id]
    ELSE [users |-> us \cup {[id |-> new_id, telegram_id |-> tg_id]}, id |-> new_id]

\* INSERT INTO logs (user_id, timestamp) VALUES (?, ?)
insert_log(lg, user_id, ts) == lg (+) SetToBag({<<user_id, ts>>})

\* SELECT COUNT(*) FROM logs WHERE user_id = ?
get_user_stats(lg, user_id) ==
    CountRows(lg, {l \in BagToSet(lg) : l[1] = user_id})

\* The timestamps of the user's rows of logs, one per row.
RECURSIVE get_all_user_timestamps(_, _)
get_all_user_timestamps(lg, user_id) ==
    LET rows == {l \in BagToSet(lg) : l[1] = user_id}
    IN  IF rows = {} THEN <<>>
        ELSE LET l == CHOOSE x \in rows : TRUE
             IN  <<l[2]>> \o get_all_user_timestamps(lg (-) SetToBag({l}), user_id)

\* ORDER BY logs DESC; the order of rows with equal counts is the engine's,
\* taken here by ascending or by descending u.id.
TieOrders == {"asc", "desc"}

\* Mutant of RowBefore: ORDER BY logs ascending.
RowBeforeAsc(a, b, tie) ==
    \/ a.logs < b.logs
    \/ a.logs = b.logs /\ (IF tie = "asc" THEN a.id < b.id ELSE a.id > b.id)

RowBefore(a, b, tie) ==
    \/ a.logs > b.logs
    \/ a.logs = b.logs /\ (IF tie = "asc" THEN a.id < b.id ELSE a.id > b.id)

RECURSIVE OrderByLogsDesc(_, _)
OrderByLogsDesc(rows, tie) ==
    IF rows = {} THEN <<>>
    ELSE LET first == CHOOSE a \in rows : \A b \in rows \ {a} : RowBefore(a, b, tie)
         IN  <<first>> \o OrderByLogsDesc(rows \ {first}, tie)

Limit == 10

\* SELECT u.telegram_id, COUNT(l.id) as logs FROM users u
\* JOIN logs l on l.user_id = u.id GROUP BY u.id ORDER BY logs DESC LIMIT 10
get_leaderboard(us, lg, tie) ==
    LET joined  == {[telegram_id |-> u.telegram_id, id |-> u.id,
                     logs |-> get_user_stats(lg, u.id)] : u \in us}
        grouped == {g \in joined : g.logs >= 1}
        ordered == OrderByLogsDesc(grouped, tie)
        limited == SubSeq(ordered, 1, IF Len(ordered) < Limit THEN Len(ordered) ELSE Limit)
    IN  [i \in 1..Len(limited) |-> <<limited[i].telegram_id, limited[i].logs>>]

\* Mutant of delete_logs: the statement removes no row.
delete_logs_nothing(lg, user_id) == lg

\* delete_user_data, first statement: DELETE FROM logs WHERE user_id = ?
delete_logs(lg, user_id) ==
    LET rest == {l \in BagToSet(lg) : l[1] # user_id}
    IN  [l \in rest |-> lg[l]]

\* delete_user_data, second statement: DELETE FROM users WHERE id = ?
delete_user(us, user_id) == {u \in us : u.id # user_id}

-----------------------------------------------------------------------------
(* SpecLb: get_leaderboard applied to bounded stores.  User i has internal *)
(* id i and external id 100 + i and one or two events; there may also be a *)
(* user without events and an event whose user row is gone.               *)

LbDate == FromSecs(1704067200)

ChartIdle ==
    /\ ts_in = <<>>
    /\ year_in = 2024
    /\ data = None
    /\ y_range = None

InitLb ==
    /\ \E n \in 0..MaxUsersLb, idle \in BOOLEAN, orphan \in BOOLEAN :
        \E c \in [1..n -> {1, 2}] :
            /\ users = {[id |-> i, telegram_id |-> 100 + i] : i \in 1..n}
                       \cup (IF idle THEN {[id |-> n + 1, telegram_id |-> 100 + n + 1]} ELSE {})
            /\ logs = [l \in {<<i, LbDate>> : i \in 1..n}
                             \cup (IF orphan THEN {<<n + 2, LbDate>>} ELSE {})
                         |-> IF l[1] <= n THEN c[l[1]] ELSE 1]
    /\ req = <<>>
    /\ hist = <<>>
    /\ lb_out = None
    /\ ChartIdle

QueryLeaderboard ==
    /\ lb_out = None
    /\ \E tie \in TieOrders : lb_out' = Some(get_leaderboard(users, logs, tie))
    /\ UNCHANGED <<users, logs, req, hist, ts_in, year_in, data, y_range>>

NextLb == QueryLeaderboard

SpecLb == InitLb /\ [][NextLb]_vars

-----------------------------------------------------------------------------
(* bot.rs: handle_command.  Every .await on the store or on the directory  *)
(* is a step of its own; the reply a path sends is recorded with the step  *)
(* that decides it (no path sends twice, and a send reads no shared state).*)

Slots == {1, 2}
TgIds == {11, 12}
Commands == {"Start", "Done", "Stats", "AnnualStats", "HourlyStats", "Leaderboard", "Delete"}
MsgDates == {FromSecs(1705294800)}                          \* msg.date
NowYears == {2023, 2024}                                     \* Utc::now().year()

Digits == <<"0", "1", "2", "3", "4", "5", "6", "7", "8", "9">>

\* Display of an integer: its decimal digits, a '-' before a negative one.
RECURSIVE to_string(_)
to_string(n) ==
    IF n < 0 THEN "-" \o to_string(0 - n)
    ELSE IF n < 10 THEN Digits[n + 1]
    ELSE to_string(n \div 10) \o Digits[(n % 10) + 1]

RECURSIVE concat(_)
concat(strs) == IF strs = <<>> THEN "" ELSE Head(strs) \o concat(Tail(strs))

Text(t) == [kind |-> "text", text |-> t]
Photo(png) == [kind |-> "photo", chart |-> png]

DatabaseError == Text("Database error :(")
ChartError == Text("Error generating the chart :(")
Descriptions == Text("Command::descriptions()")
ThumbsUp == Text("thumbs up")        \* the thumbs-up emoji

\* bot.get_chat(id): an error, or a chat with or without a username.
DirectoryName(id) == IF id = 11 THEN "alice" ELSE "bob"
GetChatResults(id) ==
    { [ok |-> FALSE, username |-> None],
      [ok |-> TRUE, username |-> None],
      [ok |-> TRUE, username |-> Some(DirectoryName(id))] }

\* Mutant of ResolveName: the fallback is the empty name.
ResolveNameOrDefault(res, id) ==
    LET username == IF res.ok THEN res.username ELSE None
    IN  IF username = None THEN "" ELSE username[1]

\* match get_chat { Ok(chat) => chat.username(), Err(_) => None }
\*     .unwrap_or_else(|| id.to_string())
ResolveName(res, id) ==
    LET username == IF res.ok THEN res.username ELSE None
    IN  IF username = None THEN to_string(id) ELSE username[1]

\* Some(png) when draw_chart and make_png succeed (drawn), None on their error.
generate_personal_annual_chart(username, timestamps, year, now, drawn) ==
    LET y == IF year = None THEN now ELSE year[1]
    IN  IF drawn
        THEN Some(draw_chart([caption |-> username \o " - " \o to_string(y),
                              x_desc |-> "Month", y_desc |-> "Score"],
                             prepare_annual_data(timestamps, y)))
        ELSE None

generate_personal_hourly_chart(username, timestamps, drawn) ==
    IF drawn
    THEN Some(draw_chart([caption |-> username, x_desc |-> "Hour, UTC", y_desc |-> "Score"],
                         prepare_hourly_data(timestamps)))
    ELSE None

\* format!("{}. @{name} - {}\n", i + 1, r.1), i the zero-based row index
LeaderboardLine(i, name, count) ==
    to_string(i + 1) \o ". @" \o name \o " - " \o to_string(count) \o "\n"

\* Mutant of join_all: the outputs in the order the futures completed.
join_all_unordered(tasks, order) == [k \in 1..Len(order) |-> tasks[order[k]][1].line]

\* join_all(futures).await: the outputs in the order of the futures.
join_all(tasks, order) == [i \in 1..Len(tasks) |-> tasks[i][1].line]

IdleReq ==
    [pc |-> "idle", cmd |-> "", tg |-> 0, user_id |-> 0, timestamps |-> <<>>,
     leaderboard |-> <<>>, tasks |-> <<>>, order |-> <<>>, reply |-> None,
     calls |-> <<>>, removed |-> 0, fresh |-> 0]

\* The position after get_user_id, by command.
FirstStep(cmd) ==
    CASE cmd = "Done" -> "insert_log"
      [] cmd = "Stats" -> "get_user_stats"
      [] cmd \in {"AnnualStats", "HourlyStats"} -> "get_all_user_timestamps"
      [] cmd = "Leaderboard" -> "get_leaderboard"
      [] cmd = "Delete" -> "delete_logs"
      [] OTHER -> "done"

Call(q, op, ok) == [q EXCEPT !.calls = Append(@, <<op, ok>>)]

\* The handler's last step: the reply is sent and its locals are dropped.
Respond(q, reply) ==
    [IdleReq EXCEPT !.pc = "done", !.cmd = q.cmd, !.tg = q.tg, !.reply = Some(reply),
                    !.calls = q.calls, !.removed = q.removed, !.fresh = q.fresh]

\* Err(err) of a store call: error!(..), send "Database error :(", return.
Failed(q, op) == Respond(Call(q, op, FALSE), DatabaseError)

\* hist is kept under SpecSeq only: hist[t] = n + 1 when the last successful
\* delete_user_data of t's user removed n events and t has not been upserted since.
Record(h) == IF hist = None THEN None ELSE h

\* The commands that only read the store.
ReadOnly == {"AnnualStats", "HourlyStats", "Leaderboard"}

Init ==
    /\ users = {}
    /\ logs = EmptyBag
    /\ req = [r \in Slots |-> IdleReq]
    /\ hist = None
    /\ lb_out = None
    /\ ChartIdle

InitSeq ==
    /\ users = {}
    /\ logs = EmptyBag
    /\ req = [r \in Slots |-> IdleReq]
    /\ hist = [t \in TgIds |-> 0]
    /\ lb_out = None
    /\ ChartIdle

\* A command message arrives; msg.from is None or a user.  Two requests that
\* only read the store do not affect each other, and are not run together.
Receive(r) ==
    /\ req[r].pc = "idle"
    /\ \E cmd \in Commands, from \in TgIds \cup {0} :
        /\ cmd \in ReadOnly => \A o \in Slots \ {r} : req[o].cmd \notin ReadOnly
        /\ req' = [req EXCEPT ![r] =
                    IF from = 0 THEN [IdleReq EXCEPT !.pc = "done"]
                    ELSE [IdleReq EXCEPT !.pc = "get_user_id", !.cmd = cmd, !.tg = from]]
    /\ UNCHANGED <<users, logs, hist, ts_in, year_in, data, y_range, lb_out>>

\* The same, when no other request is being handled.
ReceiveAlone(r) ==
    /\ \A o \in Slots \ {r} : req[o].pc = "idle"
    /\ Receive(r)

GetUserId(r) ==
    LET q == req[r] IN
    /\ q.pc = "get_user_id"
    /\ \/ /\ req' = [req EXCEPT ![r] = Failed(q, "get_user_id")]
          /\ UNCHANGED <<users, hist>>
       \/ \E new_id \in IF \E u \in users : u.telegram_id = q.tg THEN {0} ELSE NewIds(users) :
            LET got == get_user_id(users, q.tg, new_id)
                q1  == [Call(q, "get_user_id", TRUE) EXCEPT
                          !.user_id = got.id,
                          !.fresh = IF new_id = 0 \/ hist = None THEN 0 ELSE hist[q.tg],
                          !.pc = FirstStep(q.cmd)]
            IN  /\ users' = got.users
                /\ hist' = Record([hist EXCEPT ![q.tg] = 0])
                /\ req' = [req EXCEPT ![r] =
                             IF q.cmd = "Start" THEN Respond(q1, Descriptions) ELSE q1]
    /\ UNCHANGED <<logs, ts_in, year_in, data, y_range, lb_out>>

InsertLog(r) ==
    LET q == req[r] IN
    /\ q.pc = "insert_log"
    /\ \/ /\ req' = [req EXCEPT ![r] = Failed(q, "insert_log")]
          /\ UNCHANGED logs
       \/ /\ BagCardinality(logs) < MaxLogs
          /\ \E ts \in MsgDates : logs' = insert_log(logs, q.user_id, ts)
          /\ req' = [req EXCEPT ![r] = Respond(Call(q, "insert_log", TRUE), ThumbsUp)]
    /\ UNCHANGED <<users, hist, ts_in, year_in, data, y_range, lb_out>>

\* Mutant of GetUserStats: an error of the query is read as a count of 0.
GetUserStatsOrZero(r) ==
    LET q == req[r] IN
    /\ q.pc = "get_user_stats"
    /\ \/ req' = [req EXCEPT ![r] =
                    Respond(Call(q, "get_user_stats", FALSE), Text("Your score: 0"))]
       \/ req' = [req EXCEPT ![r] =
                    Respond(Call(q, "get_user_stats", TRUE),
                         Text("Your score: " \o to_string(get_user_stats(logs, q.user_id))))]
    /\ UNCHANGED <<users, logs, hist, ts_in, year_in, data, y_range, lb_out>>

GetUserStats(r) ==
    LET q == req[r] IN
    /\ q.pc = "get_user_stats"
    /\ \/ req' = [req EXCEPT ![r] = Failed(q, "get_user_stats")]
       \/ req' = [req EXCEPT ![r] =
                    Respond(Call(q, "get_user_stats", TRUE),
                         Text("Your score: " \o to_string(get_user_stats(logs, q.user_id))))]
    /\ UNCHANGED <<users, logs, hist, ts_in, year_in, data, y_range, lb_out>>

GetAllUserTimestamps(r) ==
    LET q == req[r] IN
    /\ q.pc = "get_all_user_timestamps"
    /\ \/ req' = [req EXCEPT ![r] = Failed(q, "get_all_user_timestamps")]
       \/ req' = [req EXCEPT ![r] =
                    [Call(q, "get_all_user_timestamps", TRUE) EXCEPT
                       !.timestamps = get_all_user_timestamps(logs, q.user_id),
                       !.pc = "get_chat"]]
    /\ UNCHANGED <<users, logs, hist, ts_in, year_in, data, y_range, lb_out>>

\* AnnualStats and HourlyStats: the lookup, then the chart and its reply.
GetChat(r) ==
    LET q == req[r] IN
    /\ q.pc = "get_chat"
    /\ \E res \in GetChatResults(q.tg), now \in NowYears, drawn \in BOOLEAN :
        LET name == ResolveName(res, q.tg)
            png  == IF q.cmd = "AnnualStats"
                    THEN generate_personal_annual_chart(name, q.timestamps, None, now, drawn)
                    ELSE generate_personal_hourly_chart(name, q.timestamps, drawn)
            q1   == Call(Call(q, "get_chat", res.ok), "generate_chart", png # None)
        IN  req' = [req EXCEPT ![r] =
                      IF png # None THEN Respond(q1, Photo(png[1])) ELSE Respond(q1, ChartError)]
    /\ UNCHANGED <<users, logs, hist, ts_in, year_in, data, y_range, lb_out>>

GetLeaderboard(r) ==
    LET q == req[r] IN
    /\ q.pc = "get_leaderboard"
    /\ \/ req' = [req EXCEPT ![r] = Failed(q, "get_leaderboard")]
       \/ \E tie \in TieOrders :
            LET lb == get_leaderboard(users, logs, tie)
            IN  req' = [req EXCEPT ![r] =
                          [Call(q, "get_leaderboard", TRUE) EXCEPT
                             !.leaderboard = lb,
                             !.tasks = [i \in 1..Len(lb) |-> None],
                             !.pc = "join_all"]]
    /\ UNCHANGED <<users, logs, hist, ts_in, year_in, data, y_range, lb_out>>

\* One of the leaderboard's lookup futures completes, in any order.
LookupDone(r) ==
    LET q == req[r] IN
    /\ q.pc = "join_all"
    /\ \E i \in 1..Len(q.tasks) :
        /\ q.tasks[i] = None
        /\ \E res \in GetChatResults(q.leaderboard[i][1]) :
            LET row  == q.leaderboard[i]
                line == LeaderboardLine(i - 1, ResolveName(res, row[1]), row[2])
            IN  req' = [req EXCEPT ![r] =
                          [q EXCEPT
                             !.tasks[i] = Some([line |-> line, res |-> res]),
                             !.order = Append(@, i)]]
    /\ UNCHANGED <<users, logs, hist, ts_in, year_in, data, y_range, lb_out>>

\* join_all returns once every future has; the reply is built from its output.
JoinAll(r) ==
    LET q == req[r] IN
    /\ q.pc = "join_all"
    /\ \A i \in 1..Len(q.tasks) : q.tasks[i] # None
    /\ LET text == concat(join_all(q.tasks, q.order))
       IN  req' = [req EXCEPT ![r] =
                     [Respond(q, Text(IF text = "" THEN "The leaderboard is empty" ELSE text))
                        EXCEPT !.leaderboard = q.leaderboard, !.tasks = q.tasks,
                               !.order = q.order]]
    /\ UNCHANGED <<users, logs, hist, ts_in, year_in, data, y_range, lb_out>>

\* Mutant of DeleteLogs: an error of the first statement is not returned.
DeleteLogsThenUser(r) ==
    LET q == req[r] IN
    /\ q.pc = "delete_logs"
    /\ \/ /\ req' = [req EXCEPT ![r] =
                       [Call(q, "delete_logs", FALSE) EXCEPT !.pc = "delete_user"]]
          /\ UNCHANGED logs
       \/ /\ logs' = delete_logs(logs, q.user_id)
          /\ req' = [req EXCEPT ![r] =
                       [Call(q, "delete_logs", TRUE) EXCEPT
                          !.removed = IF hist = None THEN 0
                                      ELSE get_user_stats(logs, q.user_id),
                          !.pc = "delete_user"]]
    /\ UNCHANGED <<users, hist, ts_in, year_in, data, y_range, lb_out>>

\* delete_user_data, first statement.
DeleteLogs(r) ==
    LET q == req[r] IN
    /\ q.pc = "delete_logs"
    /\ \/ /\ req' = [req EXCEPT ![r] = Failed(q, "delete_logs")]
          /\ UNCHANGED logs
       \/ /\ logs' = delete_logs(logs, q.user_id)
          /\ req' = [req EXCEPT ![r] =
                       [Call(q, "delete_logs", TRUE) EXCEPT
                          !.removed = IF hist = None THEN 0
                                      ELSE get_user_stats(logs, q.user_id),
                          !.pc = "delete_user"]]
    /\ UNCHANGED <<users, hist, ts_in, year_in, data, y_range, lb_out>>

\* delete_user_data, second statement, and the reply.
DeleteUser(r) ==
    LET q == req[r] IN
    /\ q.pc = "delete_user"
    /\ \/ /\ req' = [req EXCEPT ![r] = Failed(q, "delete_user")]
          /\ UNCHANGED <<users, hist>>
       \/ /\ users' = delete_user(users, q.user_id)
          /\ hist' = Record([hist EXCEPT ![q.tg] = q.removed + 1])
          /\ req' = [req EXCEPT ![r] =
                       Respond(Call(q, "delete_user", TRUE), Text("All your data has been deleted"))]
    /\ UNCHANGED <<logs, ts_in, year_in, data, y_range, lb_out>>

\* respond(()): the handler has returned.
Return(r) ==
    /\ req[r].pc = "done"
    /\ req' = [req EXCEPT ![r] = IdleReq]
    /\ UNCHANGED <<users, logs, hist, ts_in, year_in, data, y_range, lb_out>>

Step(r) ==
    \/ GetUserId(r) \/ InsertLog(r) \/ GetUserStats(r) \/ GetAllUserTimestamps(r)
    \/ GetChat(r) \/ GetLeaderboard(r) \/ LookupDone(r) \/ JoinAll(r)
    \/ DeleteLogs(r) \/ DeleteUser(r) \/ Return(r)

Next == \E r \in Slots : Receive(r) \/ Step(r)

Spec == Init /\ [][Next]_vars

NextSeq == \E r \in Slots : ReceiveAlone(r) \/ Step(r)

SpecSeq == InitSeq /\ [][NextSeq]_vars

-----------------------------------------------------------------------------
(* Properties of the chart functions, under SpecChart.                     *)

\* The positions of ts_in that parse as a valid UTC instant.
ValidIdx == {i \in 1..Len(ts_in) : from_timestamp(ts_in[i]) # None}

DateOf(i) == CivilFromDays(ts_in[i].d)

RECURSIVE SumValues(_)
SumValues(d) == IF d = <<>> THEN 0 ELSE Head(d).value + SumValues(Tail(d))

\* C3: prepare_hourly_data returns exactly 24 counts whose sum is the number
\* of input timestamps that parse as a valid UTC instant, bucket h counting
\* the valid timestamps whose UTC hour of day is h, whatever their date.
C3_HourlyBuckets ==
    (data # None /\ data[1].fn = "hourly") =>
        LET out == data[1].out IN
        /\ DOMAIN out = 1..24
        /\ SumValues(out) = Cardinality(ValidIdx)
        /\ \A h \in 0..23 :
             out[h + 1].value =
                 Cardinality({i \in ValidIdx : h * 3600 <= ts_in[i].s /\ ts_in[i].s < (h + 1) * 3600})

\* Two valid timestamps of different dates share bucket 23, one is invalid.
C3_Witness ==
    /\ data # None /\ data[1].fn = "hourly"
    /\ Len(ts_in) = 3 /\ Cardinality(ValidIdx) = 2
    /\ data[1].out[24].value = 2
    /\ \E i, j \in ValidIdx : DateOf(i).year # DateOf(j).year

\* C4: prepare_annual_data returns exactly 12 counts, bucket m - 1 counting
\* the valid input timestamps whose UTC year is the given year and whose UTC
\* month is m; other years and unparsable timestamps count nowhere.
C4_MonthlyBuckets ==
    (data # None /\ data[1].fn = "annual") =>
        LET out == data[1].out IN
        /\ DOMAIN out = 1..12
        /\ \A m \in 1..12 :
             out[m].value =
                 Cardinality({i \in ValidIdx : DateOf(i).year = year_in /\ DateOf(i).month = m})

\* Year 2024 with a January and a March event, and one of 2023 or invalid.
C4_Witness ==
    /\ data # None /\ data[1].fn = "annual"
    /\ year_in = 2024 /\ Len(ts_in) = 3
    /\ data[1].out[1].value = 1 /\ data[1].out[3].value = 1
    /\ SumValues(data[1].out) = 2

\* C5: the y range draw_chart builds is [0, max(bucket counts)] when some
\* count is positive and [0, 1] otherwise, so its upper bound is at least 1.
C5_YRangeNotDegenerate ==
    y_range # None =>
        LET m == SeqMax([i \in 1..Len(data[1].out) |-> data[1].out[i].value])
        IN  /\ y_range[1] = <<0, IF m > 0 THEN m ELSE 1>>
            /\ y_range[1][2] >= 1

-----------------------------------------------------------------------------
(* Properties of get_leaderboard, under SpecLb.                            *)

\* The number of rows of logs of the user with internal id uid.
EventsOf(uid) ==
    BagCardinality([l \in {x \in BagToSet(logs) : x[1] = uid} |-> logs[l]])

\* C2: get_leaderboard returns at most 10 rows, counts non-increasing, each
\* row a user with its number of stored events, at least 1; it returns the
\* empty sequence when no user has an event.
C2_Leaderboard ==
    lb_out # None =>
        LET lb == lb_out[1] IN
        /\ Len(lb) <= 10
        /\ \A i \in 1..Len(lb) : \A j \in 1..Len(lb) : i < j => lb[i][2] >= lb[j][2]
        /\ \A i \in 1..Len(lb) :
             /\ lb[i][2] >= 1
             /\ \E u \in users : u.telegram_id = lb[i][1] /\ EventsOf(u.id) = lb[i][2]
        /\ (\A u \in users : EventsOf(u.id) = 0) => lb = <<>>

\* Eleven users have events, not all the same number: ten rows come back.
C2_Witness ==
    /\ lb_out # None
    /\ Cardinality({u \in users : EventsOf(u.id) >= 1}) = 11
    /\ Len(lb_out[1]) = 10
    /\ lb_out[1][1][2] = 2 /\ lb_out[1][10][2] = 1

-----------------------------------------------------------------------------
(* Properties of the handlers.                                             *)

StoreOps == {"get_user_id", "insert_log", "get_user_stats", "get_all_user_timestamps",
             "get_leaderboard", "delete_logs", "delete_user"}

LastCall(q) == IF q.calls = <<>> THEN <<"", TRUE>> ELSE q.calls[Len(q.calls)]

HasCall(q, c) == \E k \in 1..Len(q.calls) : q.calls[k] = c

\* Every row of logs belongs to a row of users.
NoOrphanEvents == \A l \in BagToSet(logs) : \E u \in users : u.id = l[1]

\* C1 (SpecSeq): after a successful delete_user_data of a user, with requests
\* handled one at a time, get_user_id with the same external id creates the
\* row anew, and get_user_stats of the id it returns is 0.
C1_RecreatedUserCountsZero ==
    /\ \A t \in TgIds : hist[t] > 0 =>
         /\ \A u \in users : u.telegram_id # t
         /\ \A id \in NewIds(users) : get_user_stats(logs, get_user_id(users, t, id).id) = 0
    /\ \A r \in Slots :
         LET q == req[r] IN
         /\ (q.fresh > 0 /\ q.pc \notin {"idle", "done"}) =>
                get_user_stats(logs, q.user_id) = 0
         /\ (q.fresh > 0 /\ q.pc = "done" /\ HasCall(q, <<"get_user_stats", TRUE>>)) =>
                q.reply = Some(Text("Your score: 0"))

\* A Stats request on the identity re-created after a delete that removed events.
C1_Witness ==
    \E r \in Slots :
        /\ req[r].pc = "done" /\ req[r].cmd = "Stats"
        /\ req[r].fresh >= 2
        /\ req[r].reply = Some(Text("Your score: 0"))

\* C9 (SpecSeq): delete_user_data deletes the events first and the user row
\* second.  An error of the first statement ends it with the store unchanged
\* and the second not attempted; an error of the second leaves the events
\* gone and the user row in place; the store never holds events of a user
\* whose row is gone.
C9_TwoStepDelete ==
    /\ [](/\ NoOrphanEvents
          /\ \A r \in Slots : \A k \in 1..Len(req[r].calls) :
               /\ req[r].calls[k][1] = "delete_user" =>
                     k > 1 /\ req[r].calls[k - 1] = <<"delete_logs", TRUE>>
               /\ req[r].calls[k] = <<"delete_logs", FALSE>> => k = Len(req[r].calls))
    /\ [][\A r \in Slots :
            /\ (req[r].pc = "delete_logs" /\ LastCall(req'[r]) = <<"delete_logs", FALSE>>) =>
                  users' = users /\ logs' = logs /\ req'[r].pc = "done"
            /\ (req[r].pc = "delete_user" /\ LastCall(req'[r]) = <<"delete_user", FALSE>>) =>
                  /\ users' = users
                  /\ \E u \in users' : u.id = req[r].user_id
                  /\ get_user_stats(logs', req[r].user_id) = 0]_vars

\* The second statement failed after the first removed an event: the user
\* row is left without events.
C9_Witness ==
    \E r \in Slots :
        /\ req[r].pc = "done" /\ req[r].removed >= 1
        /\ LastCall(req[r]) = <<"delete_user", FALSE>>
        /\ \E u \in users : u.telegram_id = req[r].tg /\ get_user_stats(logs, u.id) = 0

\* C10 (Spec): once every request has completed, every stored event refers
\* to an existing user row.
C10_NoEventOutlivesItsUser ==
    (\A r \in Slots : req[r].pc = "idle") => NoOrphanEvents

\* C8 (Spec): a request whose store call fails sends "Database error :(",
\* makes no further call (store, directory, chart) and sends nothing else;
\* the failing step leaves the other requests and the store as they were.
C8_StoreErrorAbortsRequest ==
    /\ [](\A r \in Slots : \A k \in 1..Len(req[r].calls) :
            (req[r].calls[k][1] \in StoreOps /\ ~req[r].calls[k][2]) =>
                /\ k = Len(req[r].calls)
                /\ req[r].pc = "done"
                /\ req[r].reply = Some(DatabaseError))
    /\ [][\A r \in Slots :
            (/\ Len(req'[r].calls) = Len(req[r].calls) + 1
             /\ LastCall(req'[r])[1] \in StoreOps
             /\ ~LastCall(req'[r])[2]) =>
                /\ \A o \in Slots \ {r} : req'[o] = req[o]
                /\ users' = users /\ logs' = logs]_vars

\* A Done request's insert failed while another request is being handled.
C8_Witness ==
    \E r \in Slots, o \in Slots :
        /\ r # o
        /\ LastCall(req[r]) = <<"insert_log", FALSE>>
        /\ req[r].reply = Some(DatabaseError)
        /\ req[o].pc \notin {"idle", "done"}

\* The name a chart request used, read off its caption.
FallbackCaptions(q) ==
    {to_string(q.tg)} \cup {to_string(q.tg) \o " - " \o to_string(y) : y \in NowYears}

\* The leaderboard rows whose lookup failed carry the decimal external id.
LeaderboardFallback(q) ==
    \A i \in 1..Len(q.tasks) :
        (q.tasks[i] # None /\ ~q.tasks[i][1].res.ok) =>
            q.tasks[i][1].line =
                LeaderboardLine(i - 1, to_string(q.leaderboard[i][1]), q.leaderboard[i][2])

LeaderboardReplied(q) ==
    /\ q.reply # None /\ q.reply[1].kind = "text"
    /\ q.reply[1] \notin {DatabaseError, ChartError}

\* C6 as claimed (SpecSeq): when the lookup fails the name is the decimal
\* external id and the request replies with its chart or leaderboard, never
\* with an error reply.
C6_LookupFailureNormalReply ==
    \A r \in Slots :
        LET q == req[r] IN
        /\ (q.pc = "done" /\ HasCall(q, <<"get_chat", FALSE>>)) =>
              /\ q.reply # None /\ q.reply[1].kind = "photo"
              /\ q.reply[1].chart.caption \in FallbackCaptions(q)
        /\ q.cmd = "Leaderboard" => LeaderboardFallback(q)
        /\ (q.cmd = "Leaderboard" /\ q.pc = "done" /\ HasCall(q, <<"get_leaderboard", TRUE>>)) =>
              LeaderboardReplied(q)

\* C6 amended (SpecSeq): when the lookup fails the name is the decimal
\* external id and the request goes on to build its chart or leaderboard
\* with it; the reply is that chart or leaderboard, or, when the chart
\* generation itself fails, "Error generating the chart :(".
C6_LookupFailureFallsBack ==
    \A r \in Slots :
        LET q == req[r] IN
        /\ (q.pc = "done" /\ HasCall(q, <<"get_chat", FALSE>>)) =>
              /\ q.calls[Len(q.calls) - 1] = <<"get_chat", FALSE>>
              /\ LastCall(q)[1] = "generate_chart"
              /\ LastCall(q)[2] =>
                    /\ q.reply # None /\ q.reply[1].kind = "photo"
                    /\ q.reply[1].chart.caption \in FallbackCaptions(q)
              /\ ~LastCall(q)[2] => q.reply = Some(ChartError)
        /\ q.cmd = "Leaderboard" => LeaderboardFallback(q)
        /\ (q.cmd = "Leaderboard" /\ q.pc = "done" /\ HasCall(q, <<"get_leaderboard", TRUE>>)) =>
              LeaderboardReplied(q)

\* An annual chart sent under the numeric name after a failed lookup.
C6_Witness ==
    \E r \in Slots :
        /\ req[r].pc = "done" /\ req[r].cmd = "AnnualStats"
        /\ HasCall(req[r], <<"get_chat", FALSE>>)
        /\ req[r].reply # None /\ req[r].reply[1].kind = "photo"
        /\ req[r].reply[1].chart.caption = "11 - 2024"

\* C7 (SpecSeq): the leaderboard handler runs one lookup per row; nothing is
\* sent before all of them have completed, in whatever order; the reply's
\* i-th line carries rank i and the name and count of row i of get_leaderboard.
C7_LeaderboardKeepsRowOrder ==
    \A r \in Slots :
        LET q == req[r] IN
        /\ q.pc = "join_all" => q.reply = None /\ Len(q.tasks) = Len(q.leaderboard)
        /\ (q.pc = "done" /\ HasCall(q, <<"get_leaderboard", TRUE>>)) =>
              /\ Len(q.tasks) = Len(q.leaderboard)
              /\ \A i \in 1..Len(q.tasks) : q.tasks[i] # None
              /\ q.reply = Some(Text(
                    IF q.leaderboard = <<>> THEN "The leaderboard is empty"
                    ELSE concat([i \in 1..Len(q.leaderboard) |->
                           to_string(i) \o ". @"
                             \o ResolveName(q.tasks[i][1].res, q.leaderboard[i][1])
                             \o " - " \o to_string(q.leaderboard[i][2]) \o "\n"])))

\* Two rows, the second row's lookup completing first and failing.
C7_Witness ==
    \E r \in Slots :
        /\ req[r].pc = "done" /\ req[r].order = <<2, 1>>
        /\ ~req[r].tasks[2][1].res.ok /\ req[r].tasks[1][1].res.ok
        /\ req[r].reply # None

====
